---- MODULE Spec2Model ----
(***************************************************************************)
(* N-puzzle search engine: state and move model (utils.py), search node    *)
(* (node.py) and the five search strategies (algorithms.py).               *)
(*                                                                         *)
(* A board is a tuple of n*n integers.  Python indexes from 0 and TLA+     *)
(* from 1: every index below is kept 0-based as in the source, and a cell  *)
(* is read as state[i + 1].                                                *)
(***************************************************************************)
EXTENDS Integers, Sequences, FiniteSets, TLC

\* ------------------------------------------------------------------ bounds
\* Board sizes explored.
Sizes == {2, 3, 4, 5}
\* Number of shuffle moves after which the shuffle loop is cut short.
MaxScramble == 3
\* Number of loop iterations after which a search is abandoned.
MaxExpanded == 300
\* The same for depth-first search, whose loop is long on every board
\* larger than 2x2.
MaxDfsExpanded == 40
\* Last depth limit iterative deepening is allowed to try.
MaxIdsDepth == 8
\* Number of moves from the goal within which a board is looked for when
\* asking whether it can be reached from the goal.
MaxDistance == 8

\* ---------------------------------------------------------- Python values
None == "None"
\* list index out of range
IndexError == <<-1>>

\* variant: the sign is kept
abs_signed(x) == x

abs(x) == IF x < 0 THEN 0 - x ELSE x

reversed(s) == [i \in 1..Len(s) |-> s[Len(s) + 1 - i]]

\* tuple.index(v): 0-based position of the first occurrence of v
index(state, v) ==
    CHOOSE i \in 0..(Len(state) - 1) :
        /\ state[i + 1] = v
        /\ \A j \in 0..(i - 1) : state[j + 1] # v

\* ------------------------------------------------------------- utils.py
get_goal_state(n) ==
    [i \in 1..(n * n) |-> IF i < n * n THEN i ELSE 0]

\* variant: the right-hand test compares the column with n instead of n - 1
get_possible_moves_wide(state, n) ==
    LET empty_index == index(state, 0)
        row == empty_index \div n
        col == empty_index % n
    IN  (IF row > 0 THEN <<"UP">> ELSE <<>>)
        \o (IF row < n - 1 THEN <<"DOWN">> ELSE <<>>)
        \o (IF col > 0 THEN <<"LEFT">> ELSE <<>>)
        \o (IF col < n THEN <<"RIGHT">> ELSE <<>>)

get_possible_moves(state, n) ==
    LET empty_index == index(state, 0)
        row == empty_index \div n
        col == empty_index % n
    IN  (IF row > 0 THEN <<"UP">> ELSE <<>>)
        \o (IF row < n - 1 THEN <<"DOWN">> ELSE <<>>)
        \o (IF col > 0 THEN <<"LEFT">> ELSE <<>>)
        \o (IF col < n - 1 THEN <<"RIGHT">> ELSE <<>>)

\* variant: DOWN moves by one cell instead of one row
swap_index_down_by_one(state, move, n) ==
    LET empty_index == index(state, 0)
    IN  CASE move = "UP" -> empty_index - n
          [] move = "DOWN" -> empty_index + 1
          [] move = "LEFT" -> empty_index - 1
          [] move = "RIGHT" -> empty_index + 1

\* the index apply_move swaps the blank with
swap_index(state, move, n) ==
    LET empty_index == index(state, 0)
    IN  CASE move = "UP" -> empty_index - n
          [] move = "DOWN" -> empty_index + n
          [] move = "LEFT" -> empty_index - 1
          [] move = "RIGHT" -> empty_index + 1

\* variant: the tile is copied onto the blank and the blank is not written
\* back
apply_move_copy(state, move, n) ==
    LET empty_index == index(state, 0)
        s == swap_index(state, move, n)
        len == Len(state)
        k == IF s < 0 THEN s + len ELSE s
    IN  IF s < 0 - len \/ s >= len
        THEN IndexError
        ELSE [i \in 1..len |->
                 IF i = empty_index + 1 THEN state[k + 1] ELSE state[i]]

\* A Python list accepts the indexes -len .. len-1; a negative one counts
\* from the end.
apply_move(state, move, n) ==
    LET empty_index == index(state, 0)
        s == swap_index(state, move, n)
        len == Len(state)
        k == IF s < 0 THEN s + len ELSE s
    IN  IF s < 0 - len \/ s >= len
        THEN IndexError
        ELSE [i \in 1..len |->
                 IF i = empty_index + 1 THEN state[k + 1]
                 ELSE IF i = k + 1 THEN state[empty_index + 1]
                 ELSE state[i]]

RECURSIVE manhattan_from(_, _, _, _)
\* variant: the blank is counted like a tile
manhattan_from_with_blank(i, state, goal, n) ==
    IF i >= Len(state) THEN 0
    ELSE LET value == state[i + 1]
             goal_index == index(goal, value)
             term == abs((i \div n) - (goal_index \div n))
                     + abs((i % n) - (goal_index % n))
         IN  term + manhattan_from(i + 1, state, goal, n)

manhattan_from(i, state, goal, n) ==
    IF i >= Len(state) THEN 0
    ELSE LET value == state[i + 1]
             goal_index == index(goal, value)
             term == IF value # 0
                     THEN abs((i \div n) - (goal_index \div n))
                          + abs((i % n) - (goal_index % n))
                     ELSE 0
         IN  term + manhattan_from(i + 1, state, goal, n)

manhattan_distance(state, goal, n) == manhattan_from(0, state, goal, n)

RECURSIVE misplaced_from(_, _, _)
\* variant: the blank is counted like a tile
misplaced_from_with_blank(i, state, goal) ==
    IF i >= Len(state) THEN 0
    ELSE (IF state[i + 1] # goal[i + 1] THEN 1 ELSE 0)
         + misplaced_from(i + 1, state, goal)

misplaced_from(i, state, goal) ==
    IF i >= Len(state) THEN 0
    ELSE (IF state[i + 1] # 0 /\ state[i + 1] # goal[i + 1] THEN 1 ELSE 0)
         + misplaced_from(i + 1, state, goal)

misplaced_tiles_heuristic(state, goal, n) == misplaced_from(0, state, goal)

\* heuristic_func(state, goal, n), the function being named by h
heuristic_func(h, state, goal, n) ==
    IF h = "misplaced_tiles_heuristic"
    THEN misplaced_tiles_heuristic(state, goal, n)
    ELSE manhattan_distance(state, goal, n)

\* variant: one iteration fewer
shuffle_count_less_one(n) == n * n * 15 - 1

shuffle_count_plus_one(n) == n * n * 15 + 1

shuffle_count(n) == n * n * 15

\* -------------------------------------------------------------- node.py
\* parent is <<>> for None and <<p>> for the node p
Node(state, parent, action, cost, heuristic) ==
    [state |-> state, parent |-> parent, action |-> action,
     cost |-> cost, heuristic |-> heuristic]

RootNode(state, heuristic) == Node(state, <<>>, None, 0, heuristic)

NodeLt(self, other) ==
    (self.cost + self.heuristic) < (other.cost + other.heuristic)

NodeEq(self, other) == self.state = other.state

\* walk of the parent links, terminal node first
RECURSIVE path_to_root(_)
path_to_root(node) ==
    <<[state |-> node.state, action |-> node.action]>>
    \o (IF node.parent = <<>> THEN <<>> ELSE path_to_root(node.parent[1]))

\* variant: the walk stops before the root
reconstruct_path_without_root(node) ==
    reversed(SubSeq(path_to_root(node), 1, Len(path_to_root(node)) - 1))

\* variant: the collected order is not reversed
reconstruct_path_not_reversed(node) == path_to_root(node)

reconstruct_path(node) == reversed(path_to_root(node))

\* -------------------------------------------------------- search results
\* what a strategy returns in place of the path
PathResult(path) == [kind |-> "path", path |-> path]
NoneResult == [kind |-> None, path |-> <<>>]
Cutoff == [kind |-> "cutoff", path |-> <<>>]

\* ---------------------------------------------------------------- heapq
\* Frontier entries of a_star_search and greedy_search are the tuples
\* (priority, node).  Python compares tuples on the first position where
\* the two differ under ==, so two entries of equal priority are compared
\* by Node.__eq__ and then Node.__lt__.
ItemLt(a, b) ==
    IF a[1] # b[1] THEN a[1] < b[1]
    ELSE IF NodeEq(a[2], b[2]) THEN FALSE
    ELSE NodeLt(a[2], b[2])

RECURSIVE siftdown(_, _, _, _)
siftdown(heap, startpos, pos, newitem) ==
    IF pos > startpos
    THEN LET parentpos == (pos - 1) \div 2
             parent == heap[parentpos + 1]
         IN  IF ItemLt(newitem, parent)
             THEN siftdown([heap EXCEPT ![pos + 1] = parent],
                           startpos, parentpos, newitem)
             ELSE [heap EXCEPT ![pos + 1] = newitem]
    ELSE [heap EXCEPT ![pos + 1] = newitem]

RECURSIVE siftup(_, _, _, _)
siftup(heap, startpos, pos, newitem) ==
    LET endpos == Len(heap)
        childpos == 2 * pos + 1
        rightpos == childpos + 1
        smaller == IF rightpos < endpos
                      /\ ~ItemLt(heap[childpos + 1], heap[rightpos + 1])
                   THEN rightpos ELSE childpos
    IN  IF childpos < endpos
        THEN siftup([heap EXCEPT ![pos + 1] = heap[smaller + 1]],
                    startpos, smaller, newitem)
        ELSE siftdown([heap EXCEPT ![pos + 1] = newitem],
                      startpos, pos, newitem)

heappush(heap, item) ==
    siftdown(Append(heap, item), 0, Len(heap), item)

\* variant: list.pop(), the last entry of the list
heappop_last(heap) ==
    [item |-> heap[Len(heap)], heap |-> SubSeq(heap, 1, Len(heap) - 1)]

\* the popped item and the heap left behind
heappop(heap) ==
    LET lastelt == heap[Len(heap)]
        rest == SubSeq(heap, 1, Len(heap) - 1)
    IN  IF rest # <<>>
        THEN [item |-> rest[1],
              heap |-> siftup([rest EXCEPT ![1] = lastelt], 0, 0, lastelt)]
        ELSE [item |-> lastelt, heap |-> <<>>]

\* --------------------------------------------------------- algorithms.py
\* variant: deque.appendleft
deque_appendleft(frontier, node) == <<node>> \o frontier

\* deque.append
deque_append(frontier, node) == Append(frontier, node)

\* Body of the for loop of breadth_first_search over the moves left.
RECURSIVE bfs_for(_, _, _, _, _)
\* variant: the neighbor is not added to explored
bfs_for_no_add(moves, node, n, explored, frontier) ==
    IF moves = <<>>
    THEN [explored |-> explored, frontier |-> frontier]
    ELSE LET move == Head(moves)
             neighbor_state == apply_move(node.state, move, n)
         IN  IF neighbor_state \notin explored
             THEN bfs_for(Tail(moves), node, n, explored,
                          deque_append(frontier,
                                       Node(neighbor_state, <<node>>, move,
                                            node.cost + 1, 0)))
             ELSE bfs_for(Tail(moves), node, n, explored, frontier)

\* variant: the state added to explored is the expanded node's
bfs_for_add_expanded(moves, node, n, explored, frontier) ==
    IF moves = <<>>
    THEN [explored |-> explored, frontier |-> frontier]
    ELSE LET move == Head(moves)
             neighbor_state == apply_move(node.state, move, n)
         IN  IF neighbor_state \notin explored
             THEN bfs_for(Tail(moves), node, n,
                          explored \cup {node.state},
                          deque_append(frontier,
                                       Node(neighbor_state, <<node>>, move,
                                            node.cost + 1, 0)))
             ELSE bfs_for(Tail(moves), node, n, explored, frontier)

bfs_for(moves, node, n, explored, frontier) ==
    IF moves = <<>>
    THEN [explored |-> explored, frontier |-> frontier]
    ELSE LET move == Head(moves)
             neighbor_state == apply_move(node.state, move, n)
         IN  IF neighbor_state \notin explored
             THEN bfs_for(Tail(moves), node, n,
                          explored \cup {neighbor_state},
                          deque_append(frontier,
                                       Node(neighbor_state, <<node>>, move,
                                            node.cost + 1, 0)))
             ELSE bfs_for(Tail(moves), node, n, explored, frontier)

dfs_max_depth(n) == n * n * 2

\* Body of the for loop of depth_first_search over the moves left.
RECURSIVE dfs_for(_, _, _, _)
dfs_for(moves, node, n, frontier) ==
    IF moves = <<>>
    THEN frontier
    ELSE LET move == Head(moves)
             neighbor_state == apply_move(node.state, move, n)
         IN  dfs_for(Tail(moves), node, n,
                     Append(frontier,
                            Node(neighbor_state, <<node>>, move,
                                 node.cost + 1, 0)))

\* The result of depth_limited_search and the number of calls it added to
\* expanded_nodes_ref[0].
RECURSIVE depth_limited_search(_, _, _, _)
RECURSIVE dls_for(_, _, _, _, _, _, _)
RECURSIVE dls_for_no_cutoff(_, _, _, _, _, _, _)
\* variant: the limit is tested before the goal
depth_limited_search_limit_first(node, goal, n, limit) ==
    IF limit = 0
    THEN [result |-> Cutoff, expanded |-> 1]
    ELSE IF node.state = goal
    THEN [result |-> PathResult(reconstruct_path(node)), expanded |-> 1]
    ELSE dls_for(get_possible_moves(node.state, n), node, goal, n, limit,
                 FALSE, 1)

depth_limited_search(node, goal, n, limit) ==
    IF node.state = goal
    THEN [result |-> PathResult(reconstruct_path(node)), expanded |-> 1]
    ELSE IF limit = 0
    THEN [result |-> Cutoff, expanded |-> 1]
    ELSE dls_for(get_possible_moves(node.state, n), node, goal, n, limit,
                 FALSE, 1)

\* variant: a cutoff below is not recorded in cutoff_occurred
dls_for_no_cutoff(moves, node, goal, n, limit, cutoff_occurred, count) ==
    IF moves = <<>>
    THEN [result |-> IF cutoff_occurred THEN Cutoff ELSE NoneResult,
          expanded |-> count]
    ELSE LET move == Head(moves)
             child_state == apply_move(node.state, move, n)
             child_node == Node(child_state, <<node>>, move, node.cost + 1, 0)
             r == depth_limited_search(child_node, goal, n, limit - 1)
         IN  IF r.result # Cutoff /\ r.result # NoneResult
             THEN [result |-> r.result, expanded |-> count + r.expanded]
             ELSE dls_for_no_cutoff(Tail(moves), node, goal, n, limit,
                                    cutoff_occurred, count + r.expanded)

dls_for(moves, node, goal, n, limit, cutoff_occurred, count) ==
    IF moves = <<>>
    THEN [result |-> IF cutoff_occurred THEN Cutoff ELSE NoneResult,
          expanded |-> count]
    ELSE LET move == Head(moves)
             child_state == apply_move(node.state, move, n)
             child_node == Node(child_state, <<node>>, move, node.cost + 1, 0)
             r == depth_limited_search(child_node, goal, n, limit - 1)
         IN  IF r.result = Cutoff
             THEN dls_for(Tail(moves), node, goal, n, limit, TRUE,
                          count + r.expanded)
             ELSE IF r.result # NoneResult
             THEN [result |-> r.result, expanded |-> count + r.expanded]
             ELSE dls_for(Tail(moves), node, goal, n, limit, cutoff_occurred,
                          count + r.expanded)

ids_ceiling == 100

\* explored of a_star_search is a dict, state -> cost
dict_set(d, key, value) ==
    [k \in (DOMAIN d) \cup {key} |-> IF k = key THEN value ELSE d[k]]

\* variant: the heuristic alone
a_star_priority_h_only(new_cost, h_val) == h_val

\* the priority a_star_search pushes a neighbor with
a_star_priority(new_cost, h_val) == new_cost + h_val

\* Body of the for loop of a_star_search over the moves left.
RECURSIVE a_star_for(_, _, _, _, _, _, _)
\* variant: a cost equal to the recorded one is accepted too
a_star_for_not_strict(moves, node, goal, n, h, explored, frontier) ==
    IF moves = <<>>
    THEN [explored |-> explored, frontier |-> frontier]
    ELSE LET move == Head(moves)
             neighbor_state == apply_move(node.state, move, n)
             new_cost == node.cost + 1
             h_val == heuristic_func(h, neighbor_state, goal, n)
         IN  IF neighbor_state \notin DOMAIN explored
                \/ new_cost <= explored[neighbor_state]
             THEN a_star_for(Tail(moves), node, goal, n, h,
                             dict_set(explored, neighbor_state, new_cost),
                             heappush(frontier,
                                      <<a_star_priority(new_cost, h_val),
                                        Node(neighbor_state, <<node>>, move,
                                             new_cost, h_val)>>))
             ELSE a_star_for(Tail(moves), node, goal, n, h, explored,
                             frontier)

a_star_for(moves, node, goal, n, h, explored, frontier) ==
    IF moves = <<>>
    THEN [explored |-> explored, frontier |-> frontier]
    ELSE LET move == Head(moves)
             neighbor_state == apply_move(node.state, move, n)
             new_cost == node.cost + 1
             h_val == heuristic_func(h, neighbor_state, goal, n)
         IN  IF neighbor_state \notin DOMAIN explored
                \/ new_cost < explored[neighbor_state]
             THEN a_star_for(Tail(moves), node, goal, n, h,
                             dict_set(explored, neighbor_state, new_cost),
                             heappush(frontier,
                                      <<a_star_priority(new_cost, h_val),
                                        Node(neighbor_state, <<node>>, move,
                                             new_cost, h_val)>>))
             ELSE a_star_for(Tail(moves), node, goal, n, h, explored,
                             frontier)

\* Body of the for loop of greedy_search over the moves left.
RECURSIVE greedy_for(_, _, _, _, _, _, _)
greedy_for(moves, node, goal, n, h, explored, frontier) ==
    IF moves = <<>>
    THEN frontier
    ELSE LET move == Head(moves)
             neighbor_state == apply_move(node.state, move, n)
             h_val == heuristic_func(h, neighbor_state, goal, n)
         IN  IF neighbor_state \notin explored
             THEN greedy_for(Tail(moves), node, goal, n, h, explored,
                             heappush(frontier,
                                      <<h_val,
                                        Node(neighbor_state, <<node>>, move,
                                             node.cost + 1, h_val)>>))
             ELSE greedy_for(Tail(moves), node, goal, n, h, explored,
                             frontier)

\* ------------------------------------------------------------ the state
\* The strategies are applied one after the other to the same
\* (initial_state, goal_state, n), each with the heuristic the caller
\* passes: Runs[run] is the call in progress.
Runs ==
    << <<"breadth_first_search", None>>,
       <<"depth_first_search", None>>,
       <<"iterative_deepening_search", None>>,
       <<"a_star_search", "manhattan_distance">>,
       <<"a_star_search", "misplaced_tiles_heuristic">>,
       <<"greedy_search", "manhattan_distance">>,
       <<"greedy_search", "misplaced_tiles_heuristic">> >>

VARIABLES
    n,               \* board dimension
    goal_state,      \* get_goal_state(n)
    temp_state,      \* shuffle_board: the board being shuffled
    shuffle_i,       \* shuffle_board: iterations of the loop done
    initial_state,   \* the state handed to the strategies, <<>> before
    run,             \* index in Runs of the current call
    pc,              \* "shuffle", "call", "loop" or "done"
    frontier,        \* the strategy's frontier (deque, stack or heap)
    explored,        \* the strategy's explored set (a dict in a_star_search)
    expanded_nodes,  \* the strategy's counter
    depth,           \* iterative_deepening_search: the limit of the pass
    pushed,          \* number of nodes put on the frontier so far
    results,         \* what each call of Runs returned
    gui              \* PuzzleGUI: is_busy, current_state, the search threads
                     \* in flight and the callbacks after() has queued

vars == <<n, goal_state, temp_state, shuffle_i, initial_state, run, pc,
          frontier, explored, expanded_nodes, depth, pushed, results, gui>>

Boards(k) ==
    {s \in [1..k -> 0..(k - 1)] : \A i, j \in 1..k : s[i] = s[j] => i = j}

\* Boards handed to the strategies besides the shuffled ones: every
\* permutation of the 2x2 board, solvable or not, and 3x3 boards seven and
\* eight moves away from the goal.
DeepBoards == {<<1, 5, 2, 8, 0, 3, 4, 7, 6>>, <<5, 0, 2, 1, 4, 3, 7, 8, 6>>}

OtherBoards(k) ==
    IF k = 2 THEN Boards(4) ELSE IF k = 3 THEN DeepBoards ELSE {}

Pending == [status |-> "pending", result |-> NoneResult, expanded_nodes |-> 0]

\* PuzzleGUI after __init__, or after change_size, on the board of size k
NewGui(k) ==
    [is_busy |-> FALSE, current_state |-> get_goal_state(k),
     threads |-> <<>>, after |-> <<>>]

Strategy == Runs[run][1]
Heuristic == Runs[run][2]

Init ==
    /\ n \in Sizes
    /\ goal_state = get_goal_state(n)
    /\ temp_state = goal_state
    /\ shuffle_i = 0
    /\ initial_state = <<>>
    /\ run = 1
    /\ pc = "shuffle"
    /\ frontier = <<>>
    /\ explored = {}
    /\ expanded_nodes = 0
    /\ depth = 0
    /\ pushed = 0
    /\ results = [r \in 1..Len(Runs) |-> Pending]
    /\ gui = NewGui(n)

\* One iteration of the loop of shuffle_board.
ShuffleStep ==
    /\ pc = "shuffle"
    /\ shuffle_i < shuffle_count(n)
    /\ shuffle_i < MaxScramble
    /\ \E m \in 1..Len(get_possible_moves(temp_state, n)) :
           temp_state' = apply_move(temp_state,
                                    get_possible_moves(temp_state, n)[m], n)
    /\ shuffle_i' = shuffle_i + 1
    /\ UNCHANGED gui
    /\ UNCHANGED <<n, goal_state, initial_state, run, pc, frontier, explored,
                   expanded_nodes, depth, pushed, results>>

\* The caller hands a board to the strategies: the shuffled board or one of
\* OtherBoards.
Solve ==
    /\ pc = "shuffle"
    /\ \E s \in {temp_state}
                \cup (IF shuffle_i = 0 THEN OtherBoards(n) ELSE {}) :
           /\ initial_state' = s
           /\ temp_state' = s
    /\ shuffle_i' = 0
    /\ pc' = "call"
    /\ UNCHANGED gui
    /\ UNCHANGED <<n, goal_state, run, frontier, explored, expanded_nodes,
                   depth, pushed, results>>

\* return result, expanded: the call is over and the next one is due
Return(result, expanded) ==
    /\ results' = [results EXCEPT ![run] =
                       [status |-> "returned", result |-> result,
                        expanded_nodes |-> expanded]]
    /\ run' = IF run = Len(Runs) THEN run ELSE run + 1
    /\ pc' = IF run = Len(Runs) THEN "done" ELSE "call"

BfsStart ==
    /\ pc = "call"
    /\ Strategy = "breadth_first_search"
    /\ frontier' = <<RootNode(initial_state, 0)>>
    /\ explored' = {initial_state}
    /\ expanded_nodes' = 0
    /\ pushed' = 1
    /\ pc' = "loop"
    /\ UNCHANGED gui
    /\ UNCHANGED <<n, goal_state, temp_state, shuffle_i, initial_state, run,
                   depth, results>>

\* The test of the while loop and one iteration, or the return after it.
BfsLoop ==
    /\ pc = "loop"
    /\ Strategy = "breadth_first_search"
    /\ IF frontier = <<>>
       THEN /\ Return(NoneResult, expanded_nodes)
            /\ UNCHANGED <<frontier, explored, expanded_nodes, pushed>>
       ELSE /\ expanded_nodes < MaxExpanded
            /\ LET node == Head(frontier)
                   next == bfs_for(get_possible_moves(node.state, n), node, n,
                                   explored, Tail(frontier))
               IN  /\ expanded_nodes' = expanded_nodes + 1
                   /\ IF node.state = goal_state
                      THEN /\ Return(PathResult(reconstruct_path(node)),
                                     expanded_nodes + 1)
                           /\ frontier' = Tail(frontier)
                           /\ UNCHANGED <<explored, pushed>>
                      ELSE /\ frontier' = next.frontier
                           /\ explored' = next.explored
                           /\ pushed' = pushed + Len(next.frontier)
                                        - Len(Tail(frontier))
                           /\ UNCHANGED <<run, pc, results>>
    /\ UNCHANGED gui
    /\ UNCHANGED <<n, goal_state, temp_state, shuffle_i, initial_state, depth>>

DfsStart ==
    /\ pc = "call"
    /\ Strategy = "depth_first_search"
    /\ frontier' = <<RootNode(initial_state, 0)>>
    /\ explored' = {}
    /\ expanded_nodes' = 0
    /\ pushed' = 1
    /\ pc' = "loop"
    /\ UNCHANGED gui
    /\ UNCHANGED <<n, goal_state, temp_state, shuffle_i, initial_state, run,
                   depth, results>>

DfsLoop ==
    /\ pc = "loop"
    /\ Strategy = "depth_first_search"
    /\ IF frontier = <<>>
       THEN /\ Return(NoneResult, expanded_nodes)
            /\ UNCHANGED <<frontier, explored, expanded_nodes, pushed>>
       ELSE /\ expanded_nodes < MaxDfsExpanded
            /\ LET node == frontier[Len(frontier)]
                   rest == SubSeq(frontier, 1, Len(frontier) - 1)
               IN  /\ expanded_nodes' = expanded_nodes + 1
                   /\ IF node.state \in explored
                      THEN /\ frontier' = rest
                           /\ UNCHANGED <<explored, pushed, run, pc, results>>
                      ELSE IF node.state = goal_state
                      THEN /\ Return(PathResult(reconstruct_path(node)),
                                     expanded_nodes + 1)
                           /\ frontier' = rest
                           /\ explored' = explored \cup {node.state}
                           /\ UNCHANGED pushed
                      ELSE IF node.cost > dfs_max_depth(n)
                      THEN /\ frontier' = rest
                           /\ explored' = explored \cup {node.state}
                           /\ UNCHANGED <<pushed, run, pc, results>>
                      ELSE /\ frontier' =
                                  dfs_for(reversed(get_possible_moves(
                                              node.state, n)),
                                          node, n, rest)
                           /\ explored' = explored \cup {node.state}
                           /\ pushed' = pushed
                                        + Len(get_possible_moves(node.state, n))
                           /\ UNCHANGED <<run, pc, results>>
    /\ UNCHANGED gui
    /\ UNCHANGED <<n, goal_state, temp_state, shuffle_i, initial_state, depth>>

IdsStart ==
    /\ pc = "call"
    /\ Strategy = "iterative_deepening_search"
    /\ expanded_nodes' = 0
    /\ depth' = 0
    /\ frontier' = <<>>
    /\ explored' = {}
    /\ pushed' = 0
    /\ pc' = "loop"
    /\ UNCHANGED gui
    /\ UNCHANGED <<n, goal_state, temp_state, shuffle_i, initial_state, run,
                   results>>

\* One iteration of the loop over the depth limits, or the return after it.
IdsPass ==
    /\ pc = "loop"
    /\ Strategy = "iterative_deepening_search"
    /\ IF depth >= ids_ceiling
       THEN /\ Return(NoneResult, expanded_nodes)
            /\ UNCHANGED <<expanded_nodes, depth>>
       ELSE /\ depth <= MaxIdsDepth
            /\ LET root_node == RootNode(initial_state, 0)
                   r == depth_limited_search(root_node, goal_state, n, depth)
               IN  /\ expanded_nodes' = expanded_nodes + r.expanded
                   /\ IF r.result # Cutoff
                      THEN /\ Return(r.result, expanded_nodes + r.expanded)
                           /\ UNCHANGED depth
                      ELSE /\ depth' = depth + 1
                           /\ UNCHANGED <<run, pc, results>>
    /\ UNCHANGED gui
    /\ UNCHANGED <<n, goal_state, temp_state, shuffle_i, initial_state,
                   frontier, explored, pushed>>

AStarStart ==
    /\ pc = "call"
    /\ Strategy = "a_star_search"
    /\ LET h == heuristic_func(Heuristic, initial_state, goal_state, n)
       IN  frontier' = << <<h, RootNode(initial_state, h)>> >>
    /\ explored' = [s \in {initial_state} |-> 0]
    /\ expanded_nodes' = 0
    /\ pushed' = 1
    /\ pc' = "loop"
    /\ UNCHANGED gui
    /\ UNCHANGED <<n, goal_state, temp_state, shuffle_i, initial_state, run,
                   depth, results>>

AStarLoop ==
    /\ pc = "loop"
    /\ Strategy = "a_star_search"
    /\ IF frontier = <<>>
       THEN /\ Return(NoneResult, expanded_nodes)
            /\ UNCHANGED <<frontier, explored, expanded_nodes, pushed>>
       ELSE /\ expanded_nodes < MaxExpanded
            /\ LET popped == heappop(frontier)
                   node == popped.item[2]
                   next == a_star_for(get_possible_moves(node.state, n), node,
                                      goal_state, n, Heuristic, explored,
                                      popped.heap)
               IN  /\ expanded_nodes' = expanded_nodes + 1
                   /\ IF node.state = goal_state
                      THEN /\ Return(PathResult(reconstruct_path(node)),
                                     expanded_nodes + 1)
                           /\ frontier' = popped.heap
                           /\ UNCHANGED <<explored, pushed>>
                      ELSE /\ frontier' = next.frontier
                           /\ explored' = next.explored
                           /\ pushed' = pushed + Len(next.frontier)
                                        - Len(popped.heap)
                           /\ UNCHANGED <<run, pc, results>>
    /\ UNCHANGED gui
    /\ UNCHANGED <<n, goal_state, temp_state, shuffle_i, initial_state, depth>>

GreedyStart ==
    /\ pc = "call"
    /\ Strategy = "greedy_search"
    /\ LET h == heuristic_func(Heuristic, initial_state, goal_state, n)
       IN  frontier' = << <<h, RootNode(initial_state, h)>> >>
    /\ explored' = {}
    /\ expanded_nodes' = 0
    /\ pushed' = 1
    /\ pc' = "loop"
    /\ UNCHANGED gui
    /\ UNCHANGED <<n, goal_state, temp_state, shuffle_i, initial_state, run,
                   depth, results>>

GreedyLoop ==
    /\ pc = "loop"
    /\ Strategy = "greedy_search"
    /\ IF frontier = <<>>
       THEN /\ Return(NoneResult, expanded_nodes)
            /\ UNCHANGED <<frontier, explored, expanded_nodes, pushed>>
       ELSE /\ expanded_nodes < MaxExpanded
            /\ LET popped == heappop(frontier)
                   node == popped.item[2]
                   seen == explored \cup {node.state}
                   next == greedy_for(get_possible_moves(node.state, n), node,
                                      goal_state, n, Heuristic, seen,
                                      popped.heap)
               IN  /\ expanded_nodes' = expanded_nodes + 1
                   /\ IF node.state \in explored
                      THEN /\ frontier' = popped.heap
                           /\ UNCHANGED <<explored, pushed, run, pc, results>>
                      ELSE IF node.state = goal_state
                      THEN /\ Return(PathResult(reconstruct_path(node)),
                                     expanded_nodes + 1)
                           /\ frontier' = popped.heap
                           /\ explored' = seen
                           /\ UNCHANGED pushed
                      ELSE /\ frontier' = next
                           /\ explored' = seen
                           /\ pushed' = pushed + Len(next) - Len(popped.heap)
                           /\ UNCHANGED <<run, pc, results>>
    /\ UNCHANGED gui
    /\ UNCHANGED <<n, goal_state, temp_state, shuffle_i, initial_state, depth>>

\* The search is given up at the bound; the call has no result.
Abandon ==
    /\ pc = "loop"
    /\ IF Strategy = "iterative_deepening_search"
       THEN depth > MaxIdsDepth /\ depth < ids_ceiling
       ELSE IF Strategy = "depth_first_search"
       THEN frontier # <<>> /\ expanded_nodes >= MaxDfsExpanded
       ELSE frontier # <<>> /\ expanded_nodes >= MaxExpanded
    /\ results' = [results EXCEPT ![run] =
                       [status |-> "abandoned", result |-> NoneResult,
                        expanded_nodes |-> expanded_nodes]]
    /\ run' = IF run = Len(Runs) THEN run ELSE run + 1
    /\ pc' = IF run = Len(Runs) THEN "done" ELSE "call"
    /\ UNCHANGED gui
    /\ UNCHANGED <<n, goal_state, temp_state, shuffle_i, initial_state,
                   frontier, explored, expanded_nodes, depth, pushed>>

Next ==
    \/ ShuffleStep
    \/ Solve
    \/ BfsStart
    \/ BfsLoop
    \/ DfsStart
    \/ DfsLoop
    \/ IdsStart
    \/ IdsPass
    \/ AStarStart
    \/ AStarLoop
    \/ GreedyStart
    \/ GreedyLoop
    \/ Abandon

Spec == Init /\ [][Next]_vars

\* The same calls, run for the claims about the boards the program holds and
\* the moves made on them.
BoardsSpec == Init /\ [][Next]_vars

\* The 3x3 board, the size the window opens with.
Init3x3 == Init /\ n = 3

Spec3x3 == Init3x3 /\ [][Next]_vars

\* The state after construction with call r of Runs the first one made.
InitAt(r) ==
    /\ n \in Sizes
    /\ goal_state = get_goal_state(n)
    /\ temp_state = goal_state
    /\ shuffle_i = 0
    /\ initial_state = <<>>
    /\ run = r
    /\ pc = "shuffle"
    /\ frontier = <<>>
    /\ explored = {}
    /\ expanded_nodes = 0
    /\ depth = 0
    /\ pushed = 0
    /\ results = [q \in 1..Len(Runs) |-> Pending]
    /\ gui = NewGui(n)

\* The caller solves the board with a_star_search alone, with one heuristic
\* and then with the other.
AStarInit == InitAt(CHOOSE r \in 1..Len(Runs) :
                        /\ Runs[r][1] = "a_star_search"
                        /\ \A q \in 1..(r - 1) : Runs[q][1] # "a_star_search")

\* 3x3 boards on which a_star_search finds a state again at a lower cost
\* while the node pushed for it first is still on the frontier.
RepushBoards == {<<1, 6, 2, 0, 5, 3, 4, 7, 8>>, <<1, 2, 3, 7, 0, 8, 5, 6, 4>>}

\* The caller hands one of RepushBoards to the strategy.
SolveRepush ==
    /\ pc = "shuffle"
    /\ shuffle_i = 0
    /\ n * n = 9
    /\ \E s \in RepushBoards :
           /\ initial_state' = s
           /\ temp_state' = s
    /\ pc' = "call"
    /\ UNCHANGED gui
    /\ UNCHANGED <<n, goal_state, shuffle_i, run, frontier, explored,
                   expanded_nodes, depth, pushed, results>>

AStarNext ==
    \/ ShuffleStep
    \/ Solve
    \/ SolveRepush
    \/ AStarStart
    \/ AStarLoop

AStarSpec == AStarInit /\ [][AStarNext]_vars

\* The caller solves the board with greedy_search alone, with one heuristic
\* and then with the other.
GreedyInit == InitAt(CHOOSE r \in 1..Len(Runs) :
                         /\ Runs[r][1] = "greedy_search"
                         /\ \A q \in 1..(r - 1) : Runs[q][1] # "greedy_search")

GreedyNext ==
    \/ ShuffleStep
    \/ Solve
    \/ GreedyStart
    \/ GreedyLoop

GreedySpec == GreedyInit /\ [][GreedyNext]_vars

\* The caller solves the board with breadth_first_search alone.
BfsNext ==
    \/ ShuffleStep
    \/ Solve
    \/ BfsStart
    \/ BfsLoop

BfsSpec == Init /\ [][BfsNext]_vars

\* The caller solves the board with depth_first_search alone.
DfsInit == InitAt(CHOOSE r \in 1..Len(Runs) :
                      Runs[r][1] = "depth_first_search")

DfsNext ==
    \/ ShuffleStep
    \/ Solve
    \/ DfsStart
    \/ DfsLoop
    \/ Abandon

DfsSpec == DfsInit /\ [][DfsNext]_vars

\* The caller solves the board with iterative_deepening_search alone.
IdsInit == InitAt(CHOOSE r \in 1..Len(Runs) :
                      Runs[r][1] = "iterative_deepening_search")

IdsNext ==
    \/ ShuffleStep
    \/ Solve
    \/ IdsStart
    \/ IdsPass
    \/ Abandon

IdsSpec == IdsInit /\ [][IdsNext]_vars

\* Board sizes on which the loop of shuffle_board is run to its end.
ShuffleSizes == {2}

ShuffleInit == Init /\ n \in ShuffleSizes

\* One iteration of the loop of shuffle_board, of the shuffle_count it makes.
ShuffleBoardStep ==
    /\ pc = "shuffle"
    /\ shuffle_i < shuffle_count(n)
    /\ \E m \in 1..Len(get_possible_moves(temp_state, n)) :
           temp_state' = apply_move(temp_state,
                                    get_possible_moves(temp_state, n)[m], n)
    /\ shuffle_i' = shuffle_i + 1
    /\ UNCHANGED gui
    /\ UNCHANGED <<n, goal_state, initial_state, run, pc, frontier, explored,
                   expanded_nodes, depth, pushed, results>>

\* return temp_state: the loop is over and the board goes to the strategy
ShuffleBoardReturn ==
    /\ pc = "shuffle"
    /\ shuffle_i >= shuffle_count(n)
    /\ initial_state' = temp_state
    /\ pc' = "call"
    /\ UNCHANGED gui
    /\ UNCHANGED <<n, goal_state, temp_state, shuffle_i, run, frontier,
                   explored, expanded_nodes, depth, pushed, results>>

\* The board is shuffled by the whole loop of shuffle_board and then solved
\* with breadth_first_search.
ShuffleNext ==
    \/ ShuffleBoardStep
    \/ ShuffleBoardReturn
    \/ BfsStart
    \/ BfsLoop

ShuffleSpec == ShuffleInit /\ [][ShuffleNext]_vars

\* Odd board sizes on which the loop of shuffle_board is run to its end.
OddSizes == {3, 5}

OddShuffleInit == Init /\ n \in OddSizes

\* The outcomes of random.choice(moves) taken in iteration i of the count
\* iterations of the loop: every element of moves in the first MaxScramble
\* and in the last MaxScramble iterations, the first element in between.
random_choice(moves, i, count) ==
    IF i < MaxScramble \/ i >= count - MaxScramble
    THEN {moves[j] : j \in 1..Len(moves)}
    ELSE {moves[1]}

\* One iteration of the loop of shuffle_board with the move random.choice
\* gives.
ShuffleChoiceStep ==
    /\ pc = "shuffle"
    /\ shuffle_i < shuffle_count(n)
    /\ \E move \in random_choice(get_possible_moves(temp_state, n), shuffle_i,
                                 shuffle_count(n)) :
           temp_state' = apply_move(temp_state, move, n)
    /\ shuffle_i' = shuffle_i + 1
    /\ UNCHANGED gui
    /\ UNCHANGED <<n, goal_state, initial_state, run, pc, frontier, explored,
                   expanded_nodes, depth, pushed, results>>

\* The board is shuffled by the whole loop of shuffle_board.
OddShuffleNext ==
    \/ ShuffleChoiceStep
    \/ ShuffleBoardReturn

OddShuffleSpec == OddShuffleInit /\ [][OddShuffleNext]_vars

\* =================================================================== claims
Range(f) == {f[i] : i \in DOMAIN f}

AllMoves == {"UP", "DOWN", "LEFT", "RIGHT"}

Returned(r) == results[r].status = "returned"
HasPath(r) == Returned(r) /\ results[r].result.kind = "path"
PathOf(r) == results[r].result.path
\* number of moves of the path returned by call r
Moves(r) == Len(PathOf(r)) - 1

RunsOf(f) == {r \in 1..Len(Runs) : Runs[r][1] = f}
BfsRun == CHOOSE r \in RunsOf("breadth_first_search") : TRUE
DfsRun == CHOOSE r \in RunsOf("depth_first_search") : TRUE
IdsRun == CHOOSE r \in RunsOf("iterative_deepening_search") : TRUE

\* the boards one legal move away from a board of S
Neighbours(S, k) ==
    UNION {{apply_move(b, m, k) : m \in Range(get_possible_moves(b, k))} :
           b \in S}

\* the boards at most d legal moves away from a board of S
RECURSIVE ReachIn(_, _, _)
ReachIn(S, d, k) ==
    IF d = 0 THEN S ELSE ReachIn(S \cup Neighbours(S, k), d - 1, k)

\* the initial state is reachable from the goal by legal moves
FromGoal ==
    /\ initial_state # <<>>
    /\ initial_state \in ReachIn({goal_state}, MaxDistance, n)

IsPermutation(b, k) ==
    /\ Len(b) = k * k
    /\ Range(b) = 0..(k * k - 1)

FrontierNodes ==
    IF Strategy \in {"a_star_search", "greedy_search"}
    THEN {frontier[i][2] : i \in 1..Len(frontier)}
    ELSE {frontier[i] : i \in 1..Len(frontier)}

\* the boards the shuffle and the frontier hold
BoardsInPlay == {temp_state} \cup {nd.state : nd \in FrontierNodes}

ExploredStates ==
    IF pc # "loop" THEN {}
    ELSE IF Strategy = "a_star_search" THEN DOMAIN explored
    ELSE explored

RECURSIVE ChainStates(_)
ChainStates(node) ==
    {node.state}
    \cup (IF node.parent = <<>> THEN {} ELSE ChainStates(node.parent[1]))

\* every board the program holds: the shuffled board, the initial state,
\* the states of the frontier nodes and of their ancestors, the explored
\* states and the states of the returned paths
StoredStates ==
    {temp_state}
    \cup (IF initial_state = <<>> THEN {} ELSE {initial_state})
    \cup UNION {ChainStates(nd) : nd \in FrontierNodes}
    \cup ExploredStates
    \cup UNION {{PathOf(r)[i].state : i \in 1..Len(PathOf(r))} :
                r \in 1..Len(Runs)}

\* positions (0-based) where two boards differ
DiffPositions(a, b) == {i \in 0..(Len(a) - 1) : a[i + 1] # b[i + 1]}

\* two cells of the k x k grid are orthogonally adjacent
Adjacent(i, j, k) ==
    abs((i \div k) - (j \div k)) + abs((i % k) - (j % k)) = 1

opposite(m) ==
    CASE m = "UP" -> "DOWN"
      [] m = "DOWN" -> "UP"
      [] m = "LEFT" -> "RIGHT"
      [] m = "RIGHT" -> "LEFT"

\* C1: for an initial state reachable from the goal, a_star_search, with
\* either heuristic, and breadth_first_search both return a path, and the
\* two paths have the same number of elements.
C1_AStarPathAsLongAsBfs ==
    pc = "done" =>
        \A r \in RunsOf("a_star_search") :
            (Returned(BfsRun) /\ Returned(r) /\ FromGoal) =>
                /\ HasPath(BfsRun)
                /\ HasPath(r)
                /\ Len(PathOf(r)) = Len(PathOf(BfsRun))

\* both heuristics on a board eight moves from the goal, where ordering the
\* frontier by h alone gives a longer path
C1_Witness ==
    /\ pc = "done"
    /\ n = 3
    /\ \A r \in RunsOf("a_star_search") : HasPath(r) /\ Moves(r) = 8
    /\ HasPath(BfsRun)
    /\ \E r \in RunsOf("greedy_search") : HasPath(r) /\ Moves(r) > 8

\* C2: the path breadth_first_search returns has the minimum number of
\* moves: the goal is reached from the initial state in len(path) - 1 legal
\* moves and in no fewer.
C2_BfsPathIsShortest ==
    (pc = "call" /\ run = BfsRun + 1 /\ HasPath(BfsRun)) =>
        /\ goal_state \in ReachIn({initial_state}, Moves(BfsRun), n)
        /\ Moves(BfsRun) > 0 =>
               goal_state \notin ReachIn({initial_state}, Moves(BfsRun) - 1, n)

C2_Witness ==
    /\ pc = "call"
    /\ run = BfsRun + 1
    /\ HasPath(BfsRun)
    /\ Moves(BfsRun) >= 7

\* C3: when the initial state is the goal state, every strategy returns the
\* one-element path (root state, action None) and expanded_nodes = 1.
C3_SolvedBoard ==
    initial_state = goal_state =>
        \A r \in 1..Len(Runs) :
            results[r].status # "pending" =>
                /\ HasPath(r)
                /\ PathOf(r) = <<[state |-> initial_state, action |-> None]>>
                /\ results[r].expanded_nodes = 1

C3_Witness ==
    /\ initial_state = goal_state
    /\ pc = "done"
    /\ \A r \in 1..Len(Runs) : Returned(r)

\* C4: when the shortest solution has d moves (the move count of the
\* breadth_first_search path), every pass of iterative_deepening_search with
\* a limit below d ends in cutoff, the pass with limit d returns, and the
\* path it returns has d moves.
C4_IdsFindsDepth ==
    HasPath(BfsRun) =>
        /\ (pc = "loop" /\ run = IdsRun) => depth <= Moves(BfsRun)
        /\ Returned(IdsRun) =>
               /\ HasPath(IdsRun)
               /\ Moves(IdsRun) = Moves(BfsRun)
               /\ depth = Moves(BfsRun)

C4_Witness ==
    /\ HasPath(BfsRun)
    /\ HasPath(IdsRun)
    /\ Moves(IdsRun) = 8
    /\ depth = 8

\* a legal move sequence from the initial state to the goal
LegalPath(path) ==
    /\ Len(path) >= 1
    /\ path[1] = [state |-> initial_state, action |-> None]
    /\ path[Len(path)].state = goal_state
    /\ \A i \in 2..Len(path) :
           /\ path[i].action \in Range(get_possible_moves(path[i - 1].state, n))
           /\ path[i].state = apply_move(path[i - 1].state, path[i].action, n)

\* C5: every path a strategy returns starts at the initial state with
\* action None, ends at the goal state, and each later element is its
\* predecessor's state moved by a move legal there.
C5_ReturnedPathIsLegal ==
    \A r \in 1..Len(Runs) : HasPath(r) => LegalPath(PathOf(r))

C5_Witness ==
    /\ pc = "done"
    /\ \A r \in 1..Len(Runs) : HasPath(r)
    /\ Moves(DfsRun) > Moves(BfsRun)
    /\ Moves(BfsRun) >= 4

\* the calls whose loop the model runs to its end: every strategy but
\* iterative deepening, depth-first search on the 2x2 board only
RunsToEnd(r) ==
    /\ Runs[r][1] # "iterative_deepening_search"
    /\ Runs[r][1] = "depth_first_search" => n = 2

\* call r has returned and the next call has not begun
JustReturned(r) ==
    \/ pc = "call" /\ run = r + 1
    \/ pc = "done" /\ r = Len(Runs)

\* C6: breadth-first, depth-first, A* and greedy search terminate on every
\* permutation, solvable or not: each step of the loop either returns or
\* adds one to expanded_nodes, and the loop is over before the bound on the
\* iterations is met.  When the frontier empties the result is None with
\* expanded_nodes equal to the number of pops, which is then the number of
\* nodes ever put on the frontier.
C6_LoopTerminates ==
    /\ [][(pc = "loop" /\ RunsToEnd(run)) =>
              /\ results'[run].status # "abandoned"
              /\ \/ expanded_nodes' = expanded_nodes + 1
                 \/ /\ frontier = <<>>
                    /\ results'[run].status = "returned"
                    /\ results'[run].result = NoneResult]_vars
    /\ [](\A r \in 1..Len(Runs) :
              (/\ Runs[r][1] # "iterative_deepening_search"
               /\ Returned(r)
               /\ results[r].result = NoneResult
               /\ JustReturned(r)) =>
                  /\ frontier = <<>>
                  /\ results[r].expanded_nodes = pushed)

\* an unsolvable 2x2 board: all four strategies returned None
C6_Witness ==
    /\ pc = "done"
    /\ n = 2
    /\ frontier = <<>>
    /\ \A r \in 1..Len(Runs) :
           Runs[r][1] # "iterative_deepening_search" =>
               /\ Returned(r)
               /\ results[r].result = NoneResult
               /\ results[r].expanded_nodes >= 12

\* C7: every board held is a permutation of 0..n*n-1, and each legal move
\* applied to it gives a permutation that differs from it in exactly two
\* positions, the blank's and an orthogonally adjacent one.
C7_StatesArePermutations ==
    \A b \in StoredStates :
        /\ IsPermutation(b, n)
        /\ \A m \in Range(get_possible_moves(b, n)) :
               LET c == apply_move(b, m, n)
               IN  /\ IsPermutation(c, n)
                   /\ DiffPositions(b, c) = {index(b, 0), index(c, 0)}
                   /\ index(c, 0) = swap_index(b, m, n)
                   /\ Adjacent(index(b, 0), index(c, 0), n)

C7_Witness ==
    /\ pc = "loop"
    /\ n = 3
    /\ Cardinality(StoredStates) > 50
    /\ shuffle_i = 0
    /\ initial_state # goal_state

\* C8: a legal move is undone by the opposite move, which is legal in the
\* board the move gives.
C8_OppositeMoveUndoes ==
    \A b \in BoardsInPlay :
        \A m \in Range(get_possible_moves(b, n)) :
            /\ opposite(m) \in Range(get_possible_moves(apply_move(b, m, n), n))
            /\ apply_move(apply_move(b, m, n), opposite(m), n) = b

\* a board where UP is legal, and one where each of the four moves is
C8_Witness ==
    /\ \E b \in BoardsInPlay : Len(get_possible_moves(b, n)) = 4
    /\ "UP" \in Range(get_possible_moves(temp_state, n))
    /\ temp_state # goal_state

\* the index apply_move computes lies in the board
InBounds(b, m) == swap_index(b, m, n) \in 0..(Len(b) - 1)

\* C9 as stated: a move is returned exactly when the index apply_move
\* computes for it is not out of bounds.
C9_LegalIffInBounds ==
    \A b \in BoardsInPlay :
        \A m \in AllMoves :
            m \in Range(get_possible_moves(b, n)) <=> InBounds(b, m)

\* C9 amended: a move is returned exactly when the index apply_move computes
\* for it is in bounds and is a cell orthogonally adjacent to the blank;
\* apply_move is then well defined.
C9_LegalIffInBoundsAndAdjacent ==
    \A b \in BoardsInPlay :
        \A m \in AllMoves :
            /\ m \in Range(get_possible_moves(b, n)) <=>
                   /\ InBounds(b, m)
                   /\ Adjacent(index(b, 0), swap_index(b, m, n), n)
            /\ m \in Range(get_possible_moves(b, n)) =>
                   apply_move(b, m, n) # IndexError

\* the blank in the first column below the first row: LEFT is not returned
\* and its index is in bounds
C9_Witness ==
    /\ index(temp_state, 0) % n = 0
    /\ index(temp_state, 0) \div n > 0
    /\ "LEFT" \notin Range(get_possible_moves(temp_state, n))
    /\ InBounds(temp_state, "LEFT")

\* C10: on the 2x2 and 3x3 boards neither heuristic exceeds the number of
\* moves of the breadth_first_search path.
C10_HeuristicsAdmissible ==
    (n \in {2, 3} /\ HasPath(BfsRun)) =>
        /\ manhattan_distance(initial_state, goal_state, n) <= Moves(BfsRun)
        /\ misplaced_tiles_heuristic(initial_state, goal_state, n)
               <= Moves(BfsRun)

C10_Witness ==
    /\ n = 3
    /\ HasPath(BfsRun)
    /\ manhattan_distance(initial_state, goal_state, n) = Moves(BfsRun)
    /\ misplaced_tiles_heuristic(initial_state, goal_state, n) < Moves(BfsRun)
    /\ Moves(BfsRun) >= 7

\* C11: for every board held, manhattan_distance and
\* misplaced_tiles_heuristic against the goal are never negative, and each
\* is 0 exactly when the board is the goal.
C11_HeuristicZeroIffGoal ==
    \A b \in BoardsInPlay :
        LET md == manhattan_distance(b, goal_state, n)
            mt == misplaced_tiles_heuristic(b, goal_state, n)
        IN  /\ md >= 0
            /\ mt >= 0
            /\ md = 0 <=> b = goal_state
            /\ mt = 0 <=> b = goal_state

\* the goal and other boards side by side on the frontier, among them a
\* board whose tiles are displaced in opposite directions
C11_Witness ==
    /\ pc = "loop"
    /\ initial_state # goal_state
    /\ goal_state \in BoardsInPlay
    /\ \E b \in BoardsInPlay :
           /\ b # goal_state
           /\ misplaced_tiles_heuristic(b, goal_state, n) >= 2
           /\ manhattan_distance(b, goal_state, n)
                  > misplaced_tiles_heuristic(b, goal_state, n)

\* the boards the two heuristics are compared on: those the shuffle and the
\* frontier hold, every permutation of the 2x2 board and the deep 3x3 boards
ComparedBoards == BoardsInPlay \cup OtherBoards(n)

\* C12 as stated: manhattan_distance >= misplaced_tiles_heuristic fails
\* somewhere: while a strategy loops, among the boards compared and those it
\* has explored, one has a Manhattan distance below its misplaced-tile count.
C12_ManhattanBelowMisplacedSomewhere ==
    pc = "loop" =>
        \E b \in ComparedBoards \cup ExploredStates :
            manhattan_distance(b, goal_state, n)
                < misplaced_tiles_heuristic(b, goal_state, n)

\* C12 amended: on every board compared, manhattan_distance is at least
\* misplaced_tiles_heuristic.
C12_ManhattanAtLeastMisplaced ==
    \A b \in ComparedBoards :
        manhattan_distance(b, goal_state, n)
            >= misplaced_tiles_heuristic(b, goal_state, n)

\* boards other than the goal where the two are equal and where they differ
C12_Witness ==
    /\ pc = "loop"
    /\ \E b \in ComparedBoards :
           /\ b # goal_state
           /\ manhattan_distance(b, goal_state, n)
                  = misplaced_tiles_heuristic(b, goal_state, n)
    /\ \E b \in ComparedBoards :
           manhattan_distance(b, goal_state, n)
               > misplaced_tiles_heuristic(b, goal_state, n) + 2

\* C13: shuffle_board run from the goal makes 15*n*n moves, each legal where
\* it is made, so the board it holds is always within that many legal moves
\* of the goal; the board it returns is reachable from the goal, and
\* breadth_first_search from it returns a legal path to the goal.
C13_ShuffleGivesSolvableBoard ==
    /\ pc = "shuffle" =>
           /\ shuffle_i <= 15 * n * n
           /\ temp_state \in
                  ReachIn({goal_state},
                          IF shuffle_i < MaxDistance THEN shuffle_i
                          ELSE MaxDistance, n)
    /\ pc # "shuffle" =>
           /\ shuffle_i = 15 * n * n
           /\ initial_state = temp_state
           /\ FromGoal
    /\ results[BfsRun].status # "pending" =>
           /\ HasPath(BfsRun)
           /\ LegalPath(PathOf(BfsRun))

\* a board six moves from the goal returned after the whole loop and solved
C13_Witness ==
    /\ shuffle_i = 15 * n * n
    /\ initial_state # goal_state
    /\ HasPath(BfsRun)
    /\ Moves(BfsRun) = 6

\* the goal with the blank and tile 8 swapped
BlankAndEightSwapped == <<1, 2, 3, 4, 5, 6, 7, 0, 8>>

\* the path has one move, RIGHT or LEFT
OneMovePath(path) ==
    /\ Len(path) = 2
    /\ path[2].action \in {"RIGHT", "LEFT"}

\* C14: on the 3x3 board with the blank and tile 8 swapped,
\* breadth_first_search and a_star_search, with either heuristic, return a
\* two-element path whose one action is RIGHT or LEFT, and a_star_search
\* returns an expanded_nodes no greater than breadth_first_search's: its
\* counter stays below that number until the iteration that returns.
C14_OneMoveFromGoal ==
    (n = 3 /\ initial_state = BlankAndEightSwapped) =>
        /\ \A r \in {BfsRun} \cup RunsOf("a_star_search") :
               results[r].status # "pending" =>
                   /\ HasPath(r)
                   /\ OneMovePath(PathOf(r))
                   /\ results[r].expanded_nodes
                          <= results[BfsRun].expanded_nodes
        /\ (pc = "loop" /\ Strategy = "a_star_search") =>
               expanded_nodes < results[BfsRun].expanded_nodes

C14_Witness ==
    /\ n = 3
    /\ goal_state = <<1, 2, 3, 4, 5, 6, 7, 8, 0>>
    /\ initial_state = BlankAndEightSwapped
    /\ pc = "done"
    /\ \A r \in {BfsRun} \cup RunsOf("a_star_search") :
           /\ HasPath(r)
           /\ PathOf(r)[2].action = "RIGHT"
    /\ \A r \in RunsOf("a_star_search") :
           results[r].expanded_nodes < results[BfsRun].expanded_nodes

\* frontier and explored are those of breadth_first_search, looping or
\* just returned
InBfs ==
    \/ pc = "loop" /\ Strategy = "breadth_first_search"
    \/ JustReturned(BfsRun)

\* C15: in breadth_first_search every frontier node's state is in explored,
\* the nodes enqueued so far carry pairwise different states (as many nodes
\* were enqueued as explored has states, and the frontier holds no state
\* twice), and expanded_nodes exceeds neither that number nor, on the 2x2
\* board, the number of states reachable from the initial state.
C15_BfsExploredAtEnqueue ==
    InBfs =>
        /\ \A i \in 1..Len(frontier) : frontier[i].state \in explored
        /\ \A i, j \in 1..Len(frontier) :
               frontier[i].state = frontier[j].state => i = j
        /\ pushed = Cardinality(explored)
        /\ expanded_nodes <= Cardinality(explored)
        /\ n = 2 =>
               /\ explored \subseteq ReachIn({initial_state}, MaxDistance, n)
               /\ expanded_nodes
                      <= Cardinality(ReachIn({initial_state}, MaxDistance, n))

\* an unsolvable 2x2 board: every reachable state was enqueued once and
\* expanded once
C15_Witness ==
    /\ JustReturned(BfsRun)
    /\ n = 2
    /\ results[BfsRun].result = NoneResult
    /\ expanded_nodes = Cardinality(ReachIn({initial_state}, MaxDistance, n))
    /\ expanded_nodes = 12

\* a node and its ancestors
RECURSIVE ChainNodes(_)
ChainNodes(node) ==
    {node} \cup (IF node.parent = <<>> THEN {} ELSE ChainNodes(node.parent[1]))

\* an iteration of the a_star_search loop that runs the for loop
AStarExpands ==
    /\ pc = "loop"
    /\ Strategy = "a_star_search"
    /\ frontier # <<>>
    /\ heappop(frontier).item[2].state # goal_state
    /\ expanded_nodes' = expanded_nodes + 1

\* C16: in an iteration of a_star_search a neighbor is pushed exactly when
\* its state is not in explored or its cost is strictly below explored's
\* entry; every node pushed has the cost explored then records for its state;
\* an entry of explored never increases and changes only through a push; and
\* at every step each frontier node, and each of its ancestors, has a cost
\* at least explored's entry for its state, the initial state's being 0.
C16_ExploredIsBestCost ==
    /\ [][AStarExpands =>
              LET popped == heappop(frontier)
                  node == popped.item[2]
                  new == Range(frontier') \ Range(popped.heap)
              IN  /\ \A m \in Range(get_possible_moves(node.state, n)) :
                         LET s == apply_move(node.state, m, n)
                         IN  (\/ s \notin DOMAIN explored
                              \/ node.cost + 1 < explored[s])
                             <=> \E e \in new : /\ e[2].state = s
                                                /\ e[2].cost = node.cost + 1
                  /\ \A e \in new :
                         /\ e[2].state \in DOMAIN explored'
                         /\ explored'[e[2].state] = e[2].cost
                  /\ \A s \in DOMAIN explored :
                         /\ s \in DOMAIN explored'
                         /\ explored'[s] <= explored[s]
                  /\ \A s \in DOMAIN explored' :
                         (s \notin DOMAIN explored \/ explored'[s] # explored[s])
                             => \E e \in new : e[2].state = s]_vars
    /\ []((pc = "loop" /\ Strategy = "a_star_search") =>
              /\ explored[initial_state] = 0
              /\ \A i \in 1..Len(frontier) :
                     \A nd \in ChainNodes(frontier[i][2]) :
                         /\ nd.state \in DOMAIN explored
                         /\ nd.cost >= explored[nd.state])

\* a state pushed a second time at a strictly lower cost: two frontier nodes
\* carry it, one above explored's entry
C16_Witness ==
    /\ pc = "loop"
    /\ Strategy = "a_star_search"
    /\ \E i, j \in 1..Len(frontier) :
           /\ frontier[i][2].state = frontier[j][2].state
           /\ frontier[i][2].cost > frontier[j][2].cost
           /\ frontier[j][2].cost = explored[frontier[j][2].state]

\* A heap of (priority, node) entries kept on the priority alone: an entry
\* is below another exactly when its priority is smaller, and entries of
\* equal priority stay where the insertions left them.
PriorityLt(a, b) == a[1] < b[1]

RECURSIVE siftdown_by_priority(_, _, _, _)
siftdown_by_priority(heap, startpos, pos, newitem) ==
    IF pos > startpos
    THEN LET parentpos == (pos - 1) \div 2
             parent == heap[parentpos + 1]
         IN  IF PriorityLt(newitem, parent)
             THEN siftdown_by_priority([heap EXCEPT ![pos + 1] = parent],
                                       startpos, parentpos, newitem)
             ELSE [heap EXCEPT ![pos + 1] = newitem]
    ELSE [heap EXCEPT ![pos + 1] = newitem]

RECURSIVE siftup_by_priority(_, _, _, _)
siftup_by_priority(heap, startpos, pos, newitem) ==
    LET endpos == Len(heap)
        childpos == 2 * pos + 1
        rightpos == childpos + 1
        smaller == IF rightpos < endpos
                      /\ ~PriorityLt(heap[childpos + 1], heap[rightpos + 1])
                   THEN rightpos ELSE childpos
    IN  IF childpos < endpos
        THEN siftup_by_priority([heap EXCEPT ![pos + 1] = heap[smaller + 1]],
                                startpos, smaller, newitem)
        ELSE siftdown_by_priority([heap EXCEPT ![pos + 1] = newitem],
                                  startpos, pos, newitem)

heappush_by_priority(heap, item) ==
    siftdown_by_priority(Append(heap, item), 0, Len(heap), item)

heappop_by_priority(heap) ==
    LET lastelt == heap[Len(heap)]
        rest == SubSeq(heap, 1, Len(heap) - 1)
    IN  IF rest # <<>>
        THEN siftup_by_priority([rest EXCEPT ![1] = lastelt], 0, 0, lastelt)
        ELSE <<>>

\* the pushes of one iteration of greedy_search made on such a heap
RECURSIVE pushes_by_priority(_, _, _, _)
pushes_by_priority(moves, node, seen, heap) ==
    IF moves = <<>>
    THEN heap
    ELSE LET neighbor_state == apply_move(node.state, Head(moves), n)
             h_val == heuristic_func(Heuristic, neighbor_state, goal_state, n)
         IN  IF neighbor_state \notin seen
             THEN pushes_by_priority(
                      Tail(moves), node, seen,
                      heappush_by_priority(
                          heap,
                          <<h_val, Node(neighbor_state, <<node>>, Head(moves),
                                        node.cost + 1, h_val)>>))
             ELSE pushes_by_priority(Tail(moves), node, seen, heap)

\* an iteration of the greedy_search loop
GreedyPops ==
    /\ pc = "loop"
    /\ Strategy = "greedy_search"
    /\ frontier # <<>>
    /\ expanded_nodes' = expanded_nodes + 1

\* C17 as stated: the frontier of greedy_search is ordered by h alone, the
\* cost g of a node deciding nothing: each iteration leaves the frontier as
\* the pop and the pushes leave a heap kept on the priority alone.
C17_GreedyOrderedByHAlone ==
    [][GreedyPops =>
           LET node == frontier[1][2]
               rest == heappop_by_priority(frontier)
           IN  frontier' =
                   IF node.state \in explored \/ node.state = goal_state
                   THEN rest
                   ELSE pushes_by_priority(get_possible_moves(node.state, n),
                                           node, explored \cup {node.state},
                                           rest)]_vars

\* two frontier entries of equal h and different states, which the heap
\* orders by their costs
C17_Witness ==
    /\ pc = "loop"
    /\ Strategy = "greedy_search"
    /\ \E i, j \in 1..Len(frontier) :
           /\ frontier[i][1] = frontier[j][1]
           /\ frontier[i][2].state # frontier[j][2].state
           /\ frontier[i][2].cost < frontier[j][2].cost
           /\ ItemLt(frontier[i], frontier[j])
           /\ ~PriorityLt(frontier[i], frontier[j])

\* ================================================================ gui.py
\* The window's handlers and callbacks run one at a time on the GUI thread;
\* the search runs on a thread of its own, a step of a strategy at a time.

\* the options of the size menu, as the characters of their labels
SizeOptions == {<<"3", "x", "3">>, <<"4", "x", "4">>, <<"5", "x", "5">>}

\* int() of a one-digit string
int(c) == CHOOSE d \in 0..9 :
              c = <<"0", "1", "2", "3", "4", "5", "6", "7", "8", "9">>[d + 1]

\* the boards shuffle_board returns, as far as the shuffle is followed
ShuffledBoards(k) == ReachIn({get_goal_state(k)}, MaxScramble, k)

\* variant: is_busy is left as it was
set_busy_ignored(g, busy_status) == g

\* set_busy(busy_status); the widgets' states are not modelled
set_busy(g, busy_status) == [g EXCEPT !.is_busy = busy_status]

\* a callback queued by after(): the function and its arguments; args is the
\* argument tuple of the thread that queued it, kept for reference
Callback(fn, path, expanded, args) ==
    [fn |-> fn, path |-> path, expanded_nodes |-> expanded, args |-> args]

\* animate_solution(path) on the window g, path being a list
animate_solution(g, path) ==
    IF path = <<>>
    THEN set_busy(g, FALSE)
    ELSE [set_busy(g, TRUE) EXCEPT
              !.current_state = path[1].state,
              !.after = Append(@, Callback("animate_solution",
                                           PathResult(Tail(path)), 0, <<>>))]

\* on_search_complete(path, expanded_nodes, duration) on the window g, path
\* being None or a list
on_search_complete(g, path) ==
    IF path.kind = "path" /\ path.path # <<>>
    THEN animate_solution(g, path.path)
    ELSE set_busy(g, FALSE)

\* the locals of the strategy are gone with the thread
SearchOver ==
    /\ initial_state' = <<>>
    /\ run' = 1
    /\ pc' = "shuffle"
    /\ frontier' = <<>>
    /\ explored' = {}
    /\ expanded_nodes' = 0
    /\ depth' = 0
    /\ pushed' = 0
    /\ results' = [r \in 1..Len(Runs) |-> Pending]

\* change_size(choice)
GuiChangeSize ==
    \E choice \in SizeOptions :
        IF gui.is_busy
        THEN UNCHANGED vars
        ELSE /\ n' = int(choice[1])
             /\ goal_state' = get_goal_state(n')
             /\ gui' = [gui EXCEPT !.current_state = goal_state']
             /\ UNCHANGED <<temp_state, shuffle_i, initial_state, run, pc,
                            frontier, explored, expanded_nodes, depth, pushed,
                            results>>

\* shuffle()
GuiShuffle ==
    IF gui.is_busy
    THEN UNCHANGED vars
    ELSE /\ \E b \in ShuffledBoards(n) :
                /\ temp_state' = b
                /\ gui' = [gui EXCEPT !.current_state = b]
         /\ UNCHANGED <<n, goal_state, shuffle_i, initial_state, run, pc,
                        frontier, explored, expanded_nodes, depth, pushed,
                        results>>

\* solve(): the thread is started with the strategy and heuristic selected
GuiSolve ==
    IF gui.is_busy \/ gui.current_state = goal_state
    THEN UNCHANGED vars
    ELSE /\ \E r \in 1..Len(Runs) :
                /\ gui' = [set_busy(gui, TRUE) EXCEPT
                               !.threads =
                                   Append(@, [run |-> r,
                                              initial_state |->
                                                  gui.current_state,
                                              goal_state |-> goal_state,
                                              n |-> n])]
                /\ run' = r
         /\ initial_state' = gui.current_state
         /\ pc' = "call"
         /\ UNCHANGED <<n, goal_state, temp_state, shuffle_i, frontier,
                        explored, expanded_nodes, depth, pushed, results>>

\* run_search: the call of solver_func, a step at a time
RunSearch ==
    /\ gui.threads # <<>>
    /\ results[Head(gui.threads).run].status = "pending"
    /\ \/ BfsStart
       \/ BfsLoop
       \/ DfsStart
       \/ DfsLoop
       \/ IdsStart
       \/ IdsPass
       \/ AStarStart
       \/ AStarLoop
       \/ GreedyStart
       \/ GreedyLoop
       \/ Abandon

\* run_search: self.after(0, self.on_search_complete, ...), and its end
RunSearchAfter ==
    /\ gui.threads # <<>>
    /\ LET args == Head(gui.threads)
           returned == results[args.run]
       IN  /\ returned.status = "returned"
           /\ gui' = [gui EXCEPT
                          !.threads = Tail(@),
                          !.after = Append(@, Callback("on_search_complete",
                                                       returned.result,
                                                       returned.expanded_nodes,
                                                       args))]
    /\ SearchOver
    /\ UNCHANGED <<n, goal_state, temp_state, shuffle_i>>

\* The event loop runs the callback queued first.
GuiCallback ==
    /\ gui.after # <<>>
    /\ LET cb == Head(gui.after)
           g == [gui EXCEPT !.after = Tail(@)]
       IN  gui' = IF cb.fn = "on_search_complete"
                  THEN on_search_complete(g, cb.path)
                  ELSE animate_solution(g, cb.path.path)
    /\ UNCHANGED <<n, goal_state, temp_state, shuffle_i, initial_state, run,
                   pc, frontier, explored, expanded_nodes, depth, pushed,
                   results>>

GuiNext ==
    \/ GuiChangeSize
    \/ GuiShuffle
    \/ GuiSolve
    \/ RunSearch
    \/ RunSearchAfter
    \/ GuiCallback

GuiSpec == Init3x3 /\ [][GuiNext]_vars

\* a search thread is in flight, or a callback of its is queued
SearchPending == gui.threads # <<>> \/ gui.after # <<>>

\* the window holds the values the thread was started with
HoldsArgs(args) ==
    /\ n = args.n
    /\ goal_state = args.goal_state
    /\ gui.current_state = args.initial_state

\* C18: from solve() starting a search thread until its result is handled
\* and the animation is over, is_busy is True; while is_busy is True no
\* handler changes n or goal_state or starts a thread, and current_state
\* changes only to the next state of the path being animated; so at most one
\* search thread is in flight, and the window holds the values passed to the
\* search while it runs and when on_search_complete is due.
C18_BusyFromSolveToEndOfAnimation ==
    /\ [](/\ Len(gui.threads) <= 1
          /\ SearchPending => gui.is_busy
          /\ gui.threads # <<>> => HoldsArgs(Head(gui.threads))
          /\ \A i \in 1..Len(gui.after) :
                 gui.after[i].fn = "on_search_complete" =>
                     HoldsArgs(gui.after[i].args))
    /\ [][gui.is_busy =>
              /\ n' = n
              /\ goal_state' = goal_state
              /\ Len(gui'.threads) <= Len(gui.threads)
              /\ gui'.current_state # gui.current_state =>
                     /\ gui.after # <<>>
                     /\ Head(gui.after).path.kind = "path"
                     /\ gui'.current_state
                            = Head(gui.after).path.path[1].state]_vars

\* a 4x4 board three moves from the goal solved: the result is queued and
\* not yet handled
C18_Witness ==
    /\ n = 4
    /\ gui.is_busy
    /\ gui.threads = <<>>
    /\ Len(gui.after) = 1
    /\ gui.after[1].fn = "on_search_complete"
    /\ gui.after[1].path.kind = "path"
    /\ Len(gui.after[1].path.path) = 4
    /\ gui.current_state = gui.after[1].args.initial_state
    /\ gui.current_state # goal_state

\* ---------------------------------------------------------------- C19
\* C19: every path depth_first_search returns has at most max_depth =
\* 2 * n * n moves: the node whose path is returned never has a cost above
\* max_depth.
C19_DfsPathWithinMaxDepth ==
    HasPath(DfsRun) => Moves(DfsRun) <= dfs_max_depth(n)

\* depth_first_search has returned the path of a node of cost max_depth + 1,
\* a child of a node that was at the bound.
C19_Witness ==
    /\ HasPath(DfsRun)
    /\ Moves(DfsRun) = dfs_max_depth(n) + 1

\* ---------------------------------------------------------------- C20
InIds == pc = "loop" /\ Strategy = "iterative_deepening_search"

\* what the passes with the limits 0 .. d - 1 add to expanded_nodes
RECURSIVE PassesCount(_, _)
PassesCount(state, d) ==
    IF d = 0
    THEN 0
    ELSE PassesCount(state, d - 1)
         + depth_limited_search(RootNode(state, 0), goal_state, n,
                                d - 1).expanded

BlankParity(state, k) == ((index(state, 0) \div k) + (index(state, 0) % k)) % 2

\* C21: each legal move flips the parity of row + column of the blank, so
\* after shuffle_i moves from the goal the parity is that of the goal's blank
\* plus shuffle_i; shuffle_board makes 15 * n * n moves, an odd number for
\* odd n, and so the board it returns for odd n is never the goal.
C21_OddShuffleNeverGoal ==
    /\ \A m \in Range(get_possible_moves(temp_state, n)) :
           BlankParity(apply_move(temp_state, m, n), n)
               # BlankParity(temp_state, n)
    /\ BlankParity(temp_state, n)
           = (BlankParity(goal_state, n) + shuffle_i) % 2
    /\ (pc = "call" /\ n % 2 = 1) =>
           /\ shuffle_i = 15 * n * n
           /\ shuffle_i % 2 = 1
           /\ initial_state = temp_state
           /\ initial_state # goal_state

\* shuffle_board has returned a board of odd size that is one legal move
\* from the goal
C21_Witness ==
    /\ pc = "call"
    /\ n \in OddSizes
    /\ shuffle_i = shuffle_count(n)
    /\ \E m \in Range(get_possible_moves(initial_state, n)) :
           apply_move(initial_state, m, n) = goal_state

====
